---- MODULE Spec2Model ----
(***************************************************************************)
(* The message URL-rewriting pipeline of the Telegram URL shortener bot:   *)
(* processMessage (messageProcessor), shortenUrl and shortenUrlWithRetry   *)
(* (urlShortener.js), with the remote shortening service as environment.   *)
(*                                                                         *)
(* Spec           one invocation of processMessage                         *)
(* HandlerSpec    the message handler of index.js around processMessage    *)
(* ShortenUrlSpec one direct call of shortenUrl                            *)
(* ConcurrentSpec two invocations of processMessage on one event loop      *)
(* RerunSpec      processMessage called again on what it returned          *)
(* FairSpec       processMessage under the scheduling of the event loop    *)
(* TokenSpec      processMessage on tokens in capitals and of other hosts  *)
(* ExtractSpec    extractUrls, called on its own result joined by spaces   *)
(* StoreSpec      the credential store of userStorage.js                   *)
(*                                                                         *)
(* A JavaScript string is a sequence of one-character strings.  The two    *)
(* characters that cannot be written inside a TLA+ string literal (the     *)
(* double quote and the backtick) are named DQuote and Backtick.           *)
(***************************************************************************)
EXTENDS Integers, Sequences, FiniteSets, TLC

----------------------------------------------------------------------------
(* Configuration (config.js) *)

MAX_RETRIES == 3

----------------------------------------------------------------------------
(* Characters and string primitives of the JavaScript runtime *)

DQuote == "dquote"
Backtick == "backtick"

UpperCase == <<"A", "B", "C", "D", "E", "F", "G", "H", "I", "J", "K", "L", "M",
               "N", "O", "P", "Q", "R", "S", "T", "U", "V", "W", "X", "Y", "Z">>
LowerCase == <<"a", "b", "c", "d", "e", "f", "g", "h", "i", "j", "k", "l", "m",
               "n", "o", "p", "q", "r", "s", "t", "u", "v", "w", "x", "y", "z">>

\* Case folding of the regular expression flag i.
Canonicalize(c) ==
    IF \E i \in 1..26 : UpperCase[i] = c
    THEN LowerCase[CHOOSE i \in 1..26 : UpperCase[i] = c]
    ELSE c

\* The characters \s matches and String.prototype.trim removes.
WhiteSpace == {" ", "\t", "\n"}

\* The characters excluded by the class [^\s<>"{}|\\^`\[\]] of urlRegex.
UrlDelimiters ==
    WhiteSpace \cup {"<", ">", DQuote, "{", "}", "|", "\\", "^", Backtick, "[", "]"}

\* The literal prefixes of the three alternatives of urlRegex.
HttpScheme == <<"h", "t", "t", "p", ":", "/", "/">>
HttpsScheme == <<"h", "t", "t", "p", "s", ":", "/", "/">>
FtpScheme == <<"f", "t", "p", ":", "/", "/">>
WwwPrefix == <<"w", "w", "w", ".">>

\* JavaScript values that are no strings: each is a sequence whose one element
\* is no character.
Undefined == <<"undefined">>
Null == <<"null">>
NonStrings == {Undefined, Null, <<"number 0">>, <<"number 42">>, <<"object">>}

\* typeof v === 'string'
IsString(v) == v \notin NonStrings

\* !v
Falsy(v) == v \in {<<>>, Undefined, Null, <<"number 0">>}

\* String.prototype.startsWith at a position (case-sensitive).
StartsWithAt(s, pos, lit) ==
    /\ pos + Len(lit) - 1 <= Len(s)
    /\ \A k \in 1..Len(lit) : s[pos + k - 1] = lit[k]

StartsWith(s, lit) == StartsWithAt(s, 1, lit)

\* A regular expression literal matched at a position under flag i.
LiteralMatchesAt(s, pos, lit) ==
    /\ pos + Len(lit) - 1 <= Len(s)
    /\ \A k \in 1..Len(lit) : Canonicalize(s[pos + k - 1]) = lit[k]

\* String.prototype.includes.
Includes(s, sub) ==
    \E p \in 1..(Len(s) + 1) :
        /\ p + Len(sub) - 1 <= Len(s)
        /\ SubSeq(s, p, p + Len(sub) - 1) = sub

\* String.prototype.trim.
Trim(s) ==
    LET keep == {i \in 1..Len(s) : s[i] \notin WhiteSpace}
    IN  IF keep = {} THEN <<>>
        ELSE LET first == CHOOSE i \in keep : \A j \in keep : i <= j
                 last == CHOOSE i \in keep : \A j \in keep : j <= i
             IN  SubSeq(s, first, last)

----------------------------------------------------------------------------
(* urlRegex and message.match(urlRegex) *)

\* End (exclusive) of the greedy run [^\s<>"{}|\\^`\[\]]+ starting at pos.
UrlCharsEnd(s, pos) ==
    LET stops == {e \in pos..Len(s) : s[e] \in UrlDelimiters}
    IN  IF stops = {} THEN Len(s) + 1
        ELSE CHOOSE e \in stops : \A f \in stops : e <= f

\* One alternative of urlRegex at pos: the prefix, then at least one URL
\* character.  The end (exclusive) of the match, 0 when there is none.
AlternativeEnd(s, pos, prefix) ==
    IF LiteralMatchesAt(s, pos, prefix)
    THEN LET b == pos + Len(prefix)
             e == UrlCharsEnd(s, b)
         IN  IF e > b THEN e ELSE 0
    ELSE 0

\* urlRegex at pos: https?://... | ftp://... | www....
UrlRegexEnd(s, pos) ==
    LET https == AlternativeEnd(s, pos, HttpsScheme)
        http == AlternativeEnd(s, pos, HttpScheme)
        ftp == AlternativeEnd(s, pos, FtpScheme)
    IN  IF https > 0 THEN https
        ELSE IF http > 0 THEN http
        ELSE IF ftp > 0 THEN ftp
        ELSE AlternativeEnd(s, pos, WwwPrefix)

\* The spans <<start, end>> (end exclusive) of the successive matches of the
\* global urlRegex, scanning from pos.
RECURSIVE UrlSpansFrom(_, _)
UrlSpansFrom(s, pos) ==
    IF pos > Len(s) THEN <<>>
    ELSE LET end == UrlRegexEnd(s, pos)
         IN  IF end > 0 THEN <<(<<pos, end>>)>> \o UrlSpansFrom(s, end)
             ELSE UrlSpansFrom(s, pos + 1)

\* The matches in reverse order of appearance.
MatchUrlsReversed(s) ==
    LET spans == UrlSpansFrom(s, 1)
    IN  [i \in 1..Len(spans) |->
            SubSeq(s, spans[Len(spans) + 1 - i][1], spans[Len(spans) + 1 - i][2] - 1)]

\* The matches without the repetitions of an earlier match.
MatchUrlsDistinct(s) ==
    LET spans == UrlSpansFrom(s, 1)
        text(i) == SubSeq(s, spans[i][1], spans[i][2] - 1)
        firsts == {i \in 1..Len(spans) : \A j \in 1..(i - 1) : text(j) # text(i)}
        nth(k) == CHOOSE i \in firsts : Cardinality({j \in firsts : j <= i}) = k
    IN  [k \in 1..Cardinality(firsts) |-> text(nth(k))]

\* message.match(urlRegex) || []
MatchUrls(s) ==
    LET spans == UrlSpansFrom(s, 1)
    IN  [i \in 1..Len(spans) |-> SubSeq(s, spans[i][1], spans[i][2] - 1)]

\* extractUrls(message)
\* The matches of extractUrls in reverse order of appearance.
ExtractUrlsReversed(s) ==
    IF Falsy(s) \/ ~IsString(s) THEN <<>>
    ELSE LET spans == UrlSpansFrom(s, 1)
         IN  [i \in 1..Len(spans) |->
                 SubSeq(s, spans[Len(spans) + 1 - i][1], spans[Len(spans) + 1 - i][2] - 1)]

\* extractUrls(message)
ExtractUrls(s) ==
    IF Falsy(s) \/ ~IsString(s) THEN <<>>
    ELSE LET spans == UrlSpansFrom(s, 1)
         IN  [i \in 1..Len(spans) |-> SubSeq(s, spans[i][1], spans[i][2] - 1)]

\* list.join(" ") of a list of strings
RECURSIVE JoinWithSpace(_)
JoinWithSpace(list) ==
    IF list = <<>> THEN <<>>
    ELSE IF Len(list) = 1 THEN list[1]
    ELSE list[1] \o <<" ">> \o JoinWithSpace(Tail(list))

----------------------------------------------------------------------------
(* The replacement of processMessage: escape, new RegExp(.., 'g'), replace *)

\* The syntax characters of the class [.*+?^${}()|[\]\\].
RegExpSyntax ==
    {".", "*", "+", "?", "^", "$", "{", "}", "(", ")", "|", "[", "]", "\\"}

\* cleanUrl.replace(/[.*+?^${}()|[\]\\]/g, '\\$&')
RECURSIVE EscapeRegExp(_)
EscapeRegExp(s) ==
    IF s = <<>> THEN <<>>
    ELSE (IF Head(s) \in RegExpSyntax THEN <<"\\", Head(s)>> ELSE <<Head(s)>>)
         \o EscapeRegExp(Tail(s))

\* new RegExp(source, 'g'): the pattern as a sequence of atoms.  A backslash
\* makes the next character a literal, an unescaped dot matches any character
\* but a line terminator, every other character stands for itself.
RECURSIVE CompileRegExp(_)
CompileRegExp(source) ==
    IF source = <<>> THEN <<>>
    ELSE IF Head(source) = "\\" /\ Len(source) >= 2
         THEN <<[any |-> FALSE, c |-> source[2]]>>
              \o CompileRegExp(SubSeq(source, 3, Len(source)))
         ELSE <<[any |-> Head(source) = ".", c |-> Head(source)]>>
              \o CompileRegExp(Tail(source))

PatternMatchesAt(atoms, s, pos) ==
    /\ pos + Len(atoms) - 1 <= Len(s)
    /\ \A k \in 1..Len(atoms) :
          IF atoms[k].any THEN s[pos + k - 1] # "\n"
          ELSE s[pos + k - 1] = atoms[k].c

\* GetSubstitution of String.prototype.replace for a pattern without capture
\* groups: $$, $&, $` and $' are expanded, any other $ is literal.
RECURSIVE GetSubstitution(_, _, _, _)
GetSubstitution(matched, str, position, replacement) ==
    IF replacement = <<>> THEN <<>>
    ELSE IF Head(replacement) = "$" /\ Len(replacement) >= 2
              /\ replacement[2] \in {"$", "&", Backtick, "'"}
         THEN (CASE replacement[2] = "$" -> <<"$">>
                 [] replacement[2] = "&" -> matched
                 [] replacement[2] = Backtick -> SubSeq(str, 1, position - 1)
                 [] OTHER -> SubSeq(str, position + Len(matched), Len(str)))
              \o GetSubstitution(matched, str, position,
                                 SubSeq(replacement, 3, Len(replacement)))
         ELSE <<Head(replacement)>>
              \o GetSubstitution(matched, str, position, Tail(replacement))

\* A replacement whose pattern also takes the character after the URL.
RECURSIVE ReplaceFromSwallowing(_, _, _, _)
ReplaceFromSwallowing(str, atoms, replacement, pos) ==
    IF pos > Len(str) \/ atoms = <<>> THEN SubSeq(str, pos, Len(str))
    ELSE IF PatternMatchesAt(atoms, str, pos)
         THEN GetSubstitution(SubSeq(str, pos, pos + Len(atoms) - 1), str, pos, replacement)
              \o ReplaceFromSwallowing(str, atoms, replacement, pos + Len(atoms) + 1)
         ELSE <<str[pos]>> \o ReplaceFromSwallowing(str, atoms, replacement, pos + 1)

\* str.replace(regexp, replacement) with the flag g, scanning from pos.
RECURSIVE ReplaceFrom(_, _, _, _)
ReplaceFrom(str, atoms, replacement, pos) ==
    IF pos > Len(str) \/ atoms = <<>> THEN SubSeq(str, pos, Len(str))
    ELSE IF PatternMatchesAt(atoms, str, pos)
         THEN GetSubstitution(SubSeq(str, pos, pos + Len(atoms) - 1), str, pos, replacement)
              \o ReplaceFrom(str, atoms, replacement, pos + Len(atoms))
         ELSE <<str[pos]>> \o ReplaceFrom(str, atoms, replacement, pos + 1)

\* The body of the loop after shortenUrlWithRetry returned shortenedUrl.
Substitute(processed, cleanUrl, shortenedUrl) ==
    IF shortenedUrl # cleanUrl
    THEN ReplaceFrom(processed, CompileRegExp(EscapeRegExp(cleanUrl)), shortenedUrl, 1)
    ELSE processed

\* cleanUrl.includes('linkara.xyz')
ServiceMarker == <<"l", "i", "n", "k", "a", "r", "a", ".", "x", "y", "z">>

\* A test for the name of the service as its documentation spells it.
AlreadyShortenedCapitalised(cleanUrl) ==
    Includes(cleanUrl, <<"L", "i", "n", "k", "a", "r", "a", ".", "x", "y", "z">>)

AlreadyShortenedByPrefix(cleanUrl) == StartsWith(cleanUrl, HttpScheme \o ServiceMarker)

AlreadyShortened(cleanUrl) == Includes(cleanUrl, ServiceMarker)

----------------------------------------------------------------------------
(* shortenUrl (urlShortener.js) *)

\* A normalisation that tests the scheme without regard to letter case.
NormalizeUrlFoldingCase(url) ==
    IF ~LiteralMatchesAt(url, 1, HttpScheme) /\ ~LiteralMatchesAt(url, 1, HttpsScheme)
       /\ ~LiteralMatchesAt(url, 1, FtpScheme)
    THEN HttpsScheme \o url
    ELSE url

\* The URL sent to the remote service: processedUrl.
NormalizeUrl(url) ==
    IF ~StartsWith(url, HttpScheme) /\ ~StartsWith(url, HttpsScheme)
       /\ ~StartsWith(url, FtpScheme)
    THEN HttpsScheme \o url
    ELSE url

NoValue == <<>>

\* A shortenUrl that returns the field whatever the status says.
ShortenUrlOutcomeIgnoringStatus(resp) ==
    IF resp.kind = "data" /\ resp.shortenedUrl # NoValue
    THEN [threw |-> FALSE, value |-> resp.shortenedUrl, error |-> ""]
    ELSE [threw |-> TRUE, value |-> NoValue, error |-> "Error: API Error: Unknown error"]

\* What follows axios.get: the value returned, or the message of the Error
\* thrown by the catch block.  An Error thrown inside the try block has neither
\* response nor request, and is rethrown with the prefix "Error: ".
ShortenUrlOutcome(resp) ==
    IF resp.kind = "data"
    THEN IF resp.status = "success" /\ resp.shortenedUrl # NoValue
         THEN [threw |-> FALSE, value |-> resp.shortenedUrl, error |-> ""]
         ELSE [threw |-> TRUE, value |-> NoValue,
               error |-> IF resp.message # "" THEN "Error: API Error: " \o resp.message
                         ELSE "Error: API Error: Unknown error"]
    ELSE IF resp.kind = "http_error"
         THEN [threw |-> TRUE, value |-> NoValue,
               error |-> "API Error: " \o resp.message]
         ELSE [threw |-> TRUE, value |-> NoValue,
               error |-> "Network error: Unable to reach URL shortening service"]

----------------------------------------------------------------------------
(* shortenUrlWithRetry (urlShortener.js) *)

CanRetryOffByOne(retriesLeft) == retriesLeft > 1

\* A test that lets the call with no retries left ask once more.
CanRetryAtZero(retriesLeft) == retriesLeft >= 0

\* if (retries > 0)
CanRetry(retriesLeft) == retriesLeft > 0

ExhaustedRethrows(url, error) == [threw |-> TRUE, value |-> NoValue, error |-> error]

\* A fallback that returns the URL as it was sent to the service.
ExhaustedReturnsSentUrl(url, error) ==
    [threw |-> FALSE, value |-> NormalizeUrl(url), error |-> ""]

\* The else branch of the catch block: return url.
Exhausted(url, error) == [threw |-> FALSE, value |-> url, error |-> ""]

----------------------------------------------------------------------------
(* Inputs: messages and the answers of the remote service *)

MaxPieces == 4

Pieces ==
    << <<"h", "t", "t", "p", ":", "/", "/", "a">>,
       <<"b">>,
       <<" ">>,
       <<"w", "w", "w", ".">>,
       ServiceMarker >>

RECURSIVE Flatten(_)
Flatten(ss) == IF ss = <<>> THEN <<>> ELSE Head(ss) \o Flatten(Tail(ss))

Messages ==
    {Flatten([i \in 1..Len(ps) |-> Pieces[ps[i]]]) :
        ps \in UNION {[1..n -> 1..Len(Pieces)] : n \in 0..MaxPieces}}

\* The arguments processMessage is called with: the messages, and values that
\* are no strings.
Arguments == Messages \cup NonStrings

\* The values of data.shortenedUrl the remote service answers with: two links
\* of the service, a link with a replacement pattern in it, and a URL that is
\* also a URL of the messages.
ShortUrl1 == HttpScheme \o ServiceMarker \o <<"/", "1">>
ShortUrl2 == HttpScheme \o ServiceMarker \o <<"/", "2">>
ShortUrlDollar == HttpScheme \o ServiceMarker \o <<"/", "$", "&">>
ShortValues == {ShortUrl1, ShortUrl2, ShortUrlDollar, Pieces[1]}

\* The answers to one request.
Responses ==
    {[kind |-> "data", status |-> "success", shortenedUrl |-> v, message |-> ""] :
        v \in ShortValues \cup {NoValue}}
    \cup {[kind |-> "data", status |-> "error", shortenedUrl |-> NoValue, message |-> m] :
        m \in {"", "Invalid API key"}}
    \cup {[kind |-> "http_error", status |-> "", shortenedUrl |-> NoValue,
           message |-> "500 - Internal Server Error"],
          [kind |-> "no_response", status |-> "", shortenedUrl |-> NoValue, message |-> ""]}

----------------------------------------------------------------------------
(* State *)

VARIABLES
    message,            \* the argument of processMessage
    tokens,             \* history: the spans of the matches of urlRegex in message
    pc,                 \* where the invocation stands
    urls,               \* const urls
    idx,                \* position of the for..of loop in urls (1-based)
    processedMessage,   \* let processedMessage
    retries,            \* retries of the running shortenUrlWithRetry
    requestUrl,         \* processedUrl of the request in flight
    lastError,          \* message of the Error caught by shortenUrlWithRetry
    inFlight,           \* requests issued and not yet answered
    returned,           \* the value processMessage resolved with
    requests,           \* history: requests issued
    calls,              \* history: requests issued per position of urls
    failures,           \* history: failed requests per position of urls
    invocations,        \* history: shortenUrlWithRetry calls per position
    results,            \* history: value shortenUrlWithRetry returned, per position
    raised,             \* history: positions whose shortenUrlWithRetry threw
    messageText,        \* msg.text of the update the message handler runs for
    handlerPc,          \* where the message handler stands ("none": no handler)
    userHasKey,         \* const userHasKey of the handler, "pending" before it is set
    outbox,             \* the messages given to bot.sendMessage, in order
    clientPc,           \* where a direct call of shortenUrl stands ("none": no call)
    clientUrl,          \* the argument url of that call
    clientResponse,     \* what axios.get settled with in that call
    clientOutcome,      \* what that call returned or threw
    suspended,          \* the local state of a second invocation of processMessage
    running,            \* which of the two invocations the variables above are of
    extractArg,         \* the argument of a call of extractUrls
    extractPc,          \* where the caller of extractUrls stands ("none": no caller)
    extractResult,      \* what extractUrls returned for it
    extractAgain,       \* what extractUrls returned for extractResult.join(" ")
    userApiKeys,        \* const userApiKeys of userStorage.js: userId -> apiKey
    userStats,          \* const userStats of userStorage.js, as the user ids it holds
    storeReply,         \* what the last call of a function of userStorage.js returned or threw
    lastSet             \* history: userId -> the trimmed key last set and not removed since

\* The state of the caller of processMessage.
callerVars == <<messageText, handlerPc, userHasKey, outbox>>

\* The state of a direct call of shortenUrl.
clientVars == <<clientPc, clientUrl, clientResponse, clientOutcome>>

\* The second invocation of processMessage.
otherVars == <<suspended, running>>

\* The state of an invocation of processMessage and the history kept of it.
processVars == <<message, tokens, pc, urls, idx, processedMessage, retries, requestUrl,
                 lastError, inFlight, returned, requests, calls, failures, invocations,
                 results, raised>>

\* The state of a call of extractUrls.
extractVars == <<extractArg, extractPc, extractResult, extractAgain>>

\* The state of userStorage.js.
storeVars == <<userApiKeys, userStats, storeReply, lastSet>>

\* The state of the functions nothing in processMessage calls.
libraryVars == <<extractVars, storeVars>>

vars == <<message, tokens, pc, urls, idx, processedMessage, retries, requestUrl, lastError,
          inFlight, returned, requests, calls, failures, invocations, results, raised,
          callerVars, clientVars, otherVars, libraryVars>>

\* The local state of an invocation of processMessage that is not called yet.
Fresh(m, at) ==
    [message |-> m,
     tokens |-> IF IsString(m) THEN UrlSpansFrom(m, 1) ELSE <<>>,
     pc |-> at, urls |-> <<>>, idx |-> 0, processedMessage |-> <<>>, retries |-> 0,
     requestUrl |-> <<>>, lastError |-> "", returned |-> <<>>, calls |-> <<>>,
     failures |-> <<>>, invocations |-> <<>>, results |-> <<>>, raised |-> {}]

\* No second invocation.
NoOther ==
    /\ suspended = Fresh(<<>>, "none")
    /\ running = 1

\* No call of extractUrls.
NoExtract ==
    /\ extractArg = <<>>
    /\ extractPc = "none"
    /\ extractResult = <<>>
    /\ extractAgain = <<>>

\* userStorage.js is not loaded.
NoStore ==
    /\ userApiKeys = <<>>
    /\ userStats = {}
    /\ storeReply = [op |-> "none"]
    /\ lastSet = <<>>

\* Neither of them.
NoLibrary == NoExtract /\ NoStore

\* No direct call of shortenUrl.
NoClient ==
    /\ clientPc = "none"
    /\ clientUrl = <<>>
    /\ clientResponse = [kind |-> "none"]
    /\ clientOutcome = [threw |-> FALSE, value |-> <<>>, error |-> ""]

\* No message handler.
NoHandler ==
    /\ messageText = <<>>
    /\ handlerPc = "none"
    /\ userHasKey = "pending"
    /\ outbox = <<>>

\* processMessage is not running.
NotRunning ==
    /\ message = <<>>
    /\ tokens = <<>>
    /\ pc = "idle"
    /\ urls = <<>>
    /\ idx = 0
    /\ processedMessage = <<>>
    /\ retries = 0
    /\ requestUrl = <<>>
    /\ lastError = ""
    /\ inFlight = 0
    /\ returned = <<>>
    /\ requests = 0
    /\ calls = <<>>
    /\ failures = <<>>
    /\ invocations = <<>>
    /\ results = <<>>
    /\ raised = {}

Init ==
    /\ message \in Arguments
    /\ tokens = IF IsString(message) THEN UrlSpansFrom(message, 1) ELSE <<>>
    /\ pc = "start"
    /\ urls = <<>>
    /\ idx = 0
    /\ processedMessage = <<>>
    /\ retries = 0
    /\ requestUrl = <<>>
    /\ lastError = ""
    /\ inFlight = 0
    /\ returned = <<>>
    /\ requests = 0
    /\ calls = <<>>
    /\ failures = <<>>
    /\ invocations = <<>>
    /\ results = <<>>
    /\ raised = {}
    /\ NoHandler
    /\ NoClient
    /\ NoOther
    /\ NoLibrary

----------------------------------------------------------------------------
(* processMessage (messageProcessor) *)

\* An entry that returns the trimmed message when there is nothing to do.
EnterTrimmed ==
    /\ pc = "start"
    /\ IF Falsy(message) \/ ~IsString(message) \/ Len(MatchUrls(message)) = 0
       THEN /\ pc' = "done"
            /\ returned' = Trim(message)
            /\ UNCHANGED <<urls, idx, processedMessage, calls, failures,
                           invocations, results>>
       ELSE /\ urls' = MatchUrls(message)
            /\ processedMessage' = message
            /\ idx' = 1
            /\ pc' = "loop"
            /\ calls' = [i \in 1..Len(MatchUrls(message)) |-> 0]
            /\ failures' = [i \in 1..Len(MatchUrls(message)) |-> 0]
            /\ invocations' = [i \in 1..Len(MatchUrls(message)) |-> 0]
            /\ results' = [i \in 1..Len(MatchUrls(message)) |-> NoValue]
            /\ UNCHANGED returned
    /\ UNCHANGED <<message, tokens, retries, requestUrl, lastError, inFlight, requests, raised>>
    /\ UNCHANGED <<callerVars, clientVars, otherVars, libraryVars>>

\* Entry up to the loop: the guard, the extraction, the early return.
Enter ==
    /\ pc = "start"
    /\ IF Falsy(message) \/ ~IsString(message) \/ Len(MatchUrls(message)) = 0
       THEN /\ pc' = "done"
            /\ returned' = message
            /\ UNCHANGED <<urls, idx, processedMessage, calls, failures,
                           invocations, results>>
       ELSE /\ urls' = MatchUrls(message)
            /\ processedMessage' = message
            /\ idx' = 1
            /\ pc' = "loop"
            /\ calls' = [i \in 1..Len(MatchUrls(message)) |-> 0]
            /\ failures' = [i \in 1..Len(MatchUrls(message)) |-> 0]
            /\ invocations' = [i \in 1..Len(MatchUrls(message)) |-> 0]
            /\ results' = [i \in 1..Len(MatchUrls(message)) |-> NoValue]
            /\ UNCHANGED returned
    /\ UNCHANGED <<message, tokens, retries, requestUrl, lastError, inFlight, requests, raised>>
    /\ UNCHANGED <<callerVars, clientVars, otherVars, libraryVars>>

\* The skip branch of one iteration (continue).
Skip ==
    /\ pc = "loop"
    /\ idx <= Len(urls)
    /\ AlreadyShortened(Trim(urls[idx]))
    /\ idx' = idx + 1
    /\ UNCHANGED <<message, tokens, pc, urls, processedMessage, retries, requestUrl, lastError,
                   inFlight, returned, requests, calls, failures, invocations,
                   results, raised>>
    /\ UNCHANGED <<callerVars, clientVars, otherVars, libraryVars>>

\* shortenUrl up to axios.get: one request is issued.
IssueRequest(url) ==
    /\ requestUrl' = NormalizeUrl(url)
    /\ inFlight' = inFlight + 1
    /\ requests' = requests + 1
    /\ calls' = [calls EXCEPT ![idx] = @ + 1]

\* An iteration that does not await shortenUrlWithRetry.
InvokeNoAwait ==
    /\ pc = "loop"
    /\ idx <= Len(urls)
    /\ ~AlreadyShortened(Trim(urls[idx]))
    /\ retries' = MAX_RETRIES
    /\ invocations' = [invocations EXCEPT ![idx] = @ + 1]
    /\ IssueRequest(Trim(urls[idx]))
    /\ idx' = idx + 1
    /\ UNCHANGED <<message, tokens, pc, urls, processedMessage, lastError, returned,
                   failures, results, raised>>
    /\ UNCHANGED <<callerVars, clientVars, otherVars, libraryVars>>

\* An iteration that hands shortenUrlWithRetry the budget the iteration before
\* it left over.
InvokeWithLeftover ==
    /\ pc = "loop"
    /\ idx <= Len(urls)
    /\ ~AlreadyShortened(Trim(urls[idx]))
    /\ retries' = IF idx = 1 THEN MAX_RETRIES ELSE retries
    /\ invocations' = [invocations EXCEPT ![idx] = @ + 1]
    /\ IssueRequest(Trim(urls[idx]))
    /\ pc' = "await"
    /\ UNCHANGED <<message, tokens, urls, idx, processedMessage, lastError, returned,
                   failures, results, raised>>
    /\ UNCHANGED <<callerVars, clientVars, otherVars, libraryVars>>

\* One iteration calls shortenUrlWithRetry with the default budget.
Invoke ==
    /\ pc = "loop"
    /\ idx <= Len(urls)
    /\ ~AlreadyShortened(Trim(urls[idx]))
    /\ retries' = MAX_RETRIES
    /\ invocations' = [invocations EXCEPT ![idx] = @ + 1]
    /\ IssueRequest(Trim(urls[idx]))
    /\ pc' = "await"
    /\ UNCHANGED <<message, tokens, urls, idx, processedMessage, lastError, returned,
                   failures, results, raised>>
    /\ UNCHANGED <<callerVars, clientVars, otherVars, libraryVars>>

\* shortenUrlWithRetry settled with outcome: the rest of the iteration.  A
\* value is substituted; an Error is caught by the catch block of the loop.
\* The error of the catch block of shortenUrlWithRetry is out of scope.
Resume(outcome) ==
    /\ IF outcome.threw
       THEN /\ raised' = raised \cup {idx}
            /\ UNCHANGED <<processedMessage, results>>
       ELSE /\ processedMessage' =
                   Substitute(processedMessage, Trim(urls[idx]), outcome.value)
            /\ results' = [results EXCEPT ![idx] = outcome.value]
            /\ UNCHANGED raised
    /\ lastError' = ""
    /\ idx' = idx + 1
    /\ pc' = "loop"

\* A wrapper that, with retries left, asks again after a successful attempt.
RespondSuccessAskingAgain ==
    /\ pc = "await"
    /\ \E resp \in Responses :
          /\ ~ShortenUrlOutcome(resp).threw
          /\ IF CanRetry(retries)
             THEN /\ retries' = retries - 1
                  /\ requests' = requests + 1
                  /\ calls' = [calls EXCEPT ![idx] = @ + 1]
                  /\ UNCHANGED <<pc, idx, processedMessage, results, raised, lastError,
                                 inFlight>>
             ELSE /\ Resume(ShortenUrlOutcome(resp))
                  /\ inFlight' = inFlight - 1
                  /\ UNCHANGED <<retries, requests, calls>>
    /\ UNCHANGED <<message, tokens, urls, requestUrl, returned, failures, invocations>>
    /\ UNCHANGED <<callerVars, clientVars, otherVars, libraryVars>>

\* The request is answered and shortenUrl returns data.shortenedUrl.
RespondSuccess ==
    /\ pc = "await"
    /\ \E resp \in Responses :
          /\ ~ShortenUrlOutcome(resp).threw
          /\ Resume(ShortenUrlOutcome(resp))
    /\ inFlight' = inFlight - 1
    /\ UNCHANGED <<message, tokens, urls, retries, requestUrl, returned,
                   requests, calls, failures, invocations>>
    /\ UNCHANGED <<callerVars, clientVars, otherVars, libraryVars>>

\* The request fails and shortenUrl throws: retry after the delay, or fall
\* back to the URL.
RespondFailure ==
    /\ pc = "await"
    /\ \E resp \in Responses :
          /\ ShortenUrlOutcome(resp).threw
          /\ IF CanRetry(retries)
             THEN /\ pc' = "backoff"
                  /\ lastError' = ShortenUrlOutcome(resp).error
                  /\ UNCHANGED <<idx, processedMessage, results, raised>>
             ELSE Resume(Exhausted(Trim(urls[idx]), ShortenUrlOutcome(resp).error))
    /\ inFlight' = inFlight - 1
    /\ failures' = [failures EXCEPT ![idx] = @ + 1]
    /\ UNCHANGED <<message, tokens, urls, retries, requestUrl, returned, requests, calls,
                   invocations>>
    /\ UNCHANGED <<callerVars, clientVars, otherVars, libraryVars>>

\* A retry that keeps the budget it had.
RetryKeepingBudget ==
    /\ pc = "backoff"
    /\ retries' = retries
    /\ IssueRequest(Trim(urls[idx]))
    /\ pc' = "await"
    /\ UNCHANGED <<message, tokens, urls, idx, processedMessage, lastError, returned,
                   failures, invocations, results, raised>>
    /\ UNCHANGED <<callerVars, clientVars, otherVars, libraryVars>>

\* The one-second timer fires: the recursive call with retries - 1.
Retry ==
    /\ pc = "backoff"
    /\ retries' = retries - 1
    /\ IssueRequest(Trim(urls[idx]))
    /\ pc' = "await"
    /\ UNCHANGED <<message, tokens, urls, idx, processedMessage, lastError, returned,
                   failures, invocations, results, raised>>
    /\ UNCHANGED <<callerVars, clientVars, otherVars, libraryVars>>

\* The loop is over: return processedMessage.
Return ==
    /\ pc = "loop"
    /\ idx > Len(urls)
    /\ returned' = processedMessage
    /\ pc' = "done"
    /\ UNCHANGED <<message, tokens, urls, idx, processedMessage, retries, requestUrl, lastError,
                   inFlight, requests, calls, failures, invocations, results, raised>>
    /\ UNCHANGED <<callerVars, clientVars, otherVars, libraryVars>>

Next ==
    \/ Enter
    \/ Skip
    \/ Invoke
    \/ RespondSuccess
    \/ RespondFailure
    \/ Retry
    \/ Return

Spec == Init /\ [][Next]_vars

\* The invocations of processMessage under the scheduling of the event loop:
\* once called, the synchronous code of processMessage runs on, a timer that
\* was set fires, and every request is answered or times out.  Nothing
\* obliges the caller to call.
MaxFairPieces == 3

FairArguments ==
    {Flatten([i \in 1..Len(ps) |-> Pieces[ps[i]]]) :
        ps \in UNION {[1..n -> 1..Len(Pieces)] : n \in 0..MaxFairPieces}}
    \cup NonStrings

FairInit ==
    /\ NotRunning
    /\ NoHandler
    /\ NoClient
    /\ NoOther
    /\ NoLibrary

\* processMessage(message) is called.
Call ==
    /\ pc = "idle"
    /\ \E m \in FairArguments :
          /\ message' = m
          /\ tokens' = IF IsString(m) THEN UrlSpansFrom(m, 1) ELSE <<>>
    /\ pc' = "start"
    /\ UNCHANGED <<urls, idx, processedMessage, retries, requestUrl, lastError, inFlight,
                   returned, requests, calls, failures, invocations, results, raised>>
    /\ UNCHANGED <<callerVars, clientVars, otherVars, libraryVars>>

FairNext ==
    \/ Call
    \/ Enter
    \/ Skip
    \/ Invoke
    \/ RespondSuccess
    \/ RespondFailure
    \/ Retry
    \/ Return

\* The step of a call that was made: under FairNext it is a step of Enter,
\* which is enabled whenever pc = "start".
Entered == pc = "start" /\ pc' \in {"loop", "done"}

FairSpec ==
    /\ FairInit
    /\ [][FairNext]_vars
    /\ WF_pc(Entered)
    /\ WF_vars(Skip \/ Invoke \/ Return)
    /\ WF_vars(Retry)
    /\ WF_vars(RespondFailure \/ RespondSuccess)

----------------------------------------------------------------------------
(* The message handler bot.on('message', ...) (index.js) *)

\* messageText && messageText.startsWith('/')
IsCommand(text) == text # Undefined /\ StartsWith(text, <<"/">>)

\* One alternative of the urlRegex of the handler at pos: the prefix, then
\* [^\s]+.
HandlerAlternativeAt(s, pos, prefix) ==
    /\ LiteralMatchesAt(s, pos, prefix)
    /\ pos + Len(prefix) <= Len(s)
    /\ s[pos + Len(prefix)] \notin WhiteSpace

\* urlRegex.test(messageText) with the urlRegex of the handler.
HandlerUrlTest(s) ==
    \E pos \in 1..Len(s) :
        \E prefix \in {HttpsScheme, HttpScheme, FtpScheme, WwwPrefix} :
            HandlerAlternativeAt(s, pos, prefix)

\* !messageText || !urlRegex.test(messageText)
NoUrlInText(text) == text = Undefined \/ text = <<>> \/ ~HandlerUrlTest(text)

\* The messages the handler sends.
KeyPrompt == [type |-> "set_api_key_prompt", text |-> <<>>]
NothingShortened == [type |-> "no_urls_could_be_shortened", text |-> <<>>]
ErrorNotice == [type |-> "error_processing_urls", text |-> <<>>]
Rewritten(text) == [type |-> "text", text |-> text]

\* The texts of the updates: up to MaxHandlerPieces pieces, or no text.
MaxHandlerPieces == 3

HandlerPieces == Pieces \o << <<"/">>, <<"<">> >>

HandlerTexts ==
    {Undefined} \cup
    {Flatten([i \in 1..Len(ps) |-> HandlerPieces[ps[i]]]) :
        ps \in UNION {[1..n -> 1..Len(HandlerPieces)] : n \in 0..MaxHandlerPieces}}

\* An update arrives; processMessage is not running.
HandlerInit ==
    /\ messageText \in HandlerTexts
    /\ handlerPc = "received"
    /\ userHasKey = "pending"
    /\ outbox = <<>>
    /\ NotRunning
    /\ NoClient
    /\ NoOther
    /\ NoLibrary

\* A handler that goes on with a command as with any other text.
HandlerStartTakingCommands ==
    /\ handlerPc = "received"
    /\ handlerPc' = "hasApiKey"
    /\ UNCHANGED <<messageText, userHasKey, outbox>>
    /\ UNCHANGED <<message, tokens, pc, urls, idx, processedMessage, retries, requestUrl,
                   lastError, inFlight, returned, requests, calls, failures, invocations,
                   results, raised>>
    /\ UNCHANGED <<clientVars, otherVars, libraryVars>>

\* The handler up to await hasApiKey(userId): a command is left alone.
HandlerStart ==
    /\ handlerPc = "received"
    /\ handlerPc' = IF IsCommand(messageText) THEN "ended" ELSE "hasApiKey"
    /\ UNCHANGED <<messageText, userHasKey, outbox>>
    /\ UNCHANGED <<message, tokens, pc, urls, idx, processedMessage, retries, requestUrl,
                   lastError, inFlight, returned, requests, calls, failures, invocations,
                   results, raised>>
    /\ UNCHANGED <<clientVars, otherVars, libraryVars>>

\* hasApiKey settled: a rejection leaves the handler (the await is outside
\* the try block); without a key the prompt is sent; a text without a URL is
\* ignored; otherwise the handler awaits getUserApiKey(userId).
HandlerKeyChecked ==
    /\ handlerPc = "hasApiKey"
    /\ \E answer \in {"true", "false", "rejected"} :
          /\ userHasKey' = answer
          /\ IF answer = "rejected"
             THEN handlerPc' = "rejected" /\ UNCHANGED outbox
             ELSE IF answer = "false"
             THEN handlerPc' = "ended" /\ outbox' = Append(outbox, KeyPrompt)
             ELSE /\ handlerPc' = IF NoUrlInText(messageText) THEN "ended"
                                  ELSE "getUserApiKey"
                  /\ UNCHANGED outbox
    /\ UNCHANGED messageText
    /\ UNCHANGED <<message, tokens, pc, urls, idx, processedMessage, retries, requestUrl,
                   lastError, inFlight, returned, requests, calls, failures, invocations,
                   results, raised>>
    /\ UNCHANGED <<clientVars, otherVars, libraryVars>>

\* getUserApiKey settled: processMessage(messageText, apiKey) is called, or
\* the rejection is caught and the error notice sent.
HandlerProcess ==
    /\ handlerPc = "getUserApiKey"
    /\ \E resolved \in BOOLEAN :
          IF resolved
          THEN /\ handlerPc' = "processMessage"
               /\ message' = messageText
               /\ tokens' = UrlSpansFrom(messageText, 1)
               /\ pc' = "start"
               /\ UNCHANGED outbox
          ELSE /\ handlerPc' = "ended"
               /\ outbox' = Append(outbox, ErrorNotice)
               /\ UNCHANGED <<message, tokens, pc>>
    /\ UNCHANGED <<messageText, userHasKey>>
    /\ UNCHANGED <<urls, idx, processedMessage, retries, requestUrl, lastError, inFlight,
                   returned, requests, calls, failures, invocations, results, raised>>
    /\ UNCHANGED <<clientVars, otherVars, libraryVars>>

\* A handler that sends nothing when the message comes back unchanged.
HandlerDeliverSilent ==
    /\ handlerPc = "processMessage"
    /\ pc = "done"
    /\ handlerPc' = "ended"
    /\ outbox' = IF returned # messageText THEN Append(outbox, Rewritten(returned))
                 ELSE outbox
    /\ UNCHANGED <<messageText, userHasKey>>
    /\ UNCHANGED <<message, tokens, pc, urls, idx, processedMessage, retries, requestUrl,
                   lastError, inFlight, returned, requests, calls, failures, invocations,
                   results, raised>>
    /\ UNCHANGED <<clientVars, otherVars, libraryVars>>

\* processMessage resolved: the rewritten text, or the notice.
HandlerDeliver ==
    /\ handlerPc = "processMessage"
    /\ pc = "done"
    /\ handlerPc' = "ended"
    /\ outbox' = IF returned # messageText THEN Append(outbox, Rewritten(returned))
                 ELSE Append(outbox, NothingShortened)
    /\ UNCHANGED <<messageText, userHasKey>>
    /\ UNCHANGED <<message, tokens, pc, urls, idx, processedMessage, retries, requestUrl,
                   lastError, inFlight, returned, requests, calls, failures, invocations,
                   results, raised>>
    /\ UNCHANGED <<clientVars, otherVars, libraryVars>>

HandlerNext ==
    \/ HandlerStart
    \/ HandlerKeyChecked
    \/ HandlerProcess
    \/ HandlerDeliver
    \/ Enter
    \/ Skip
    \/ Invoke
    \/ RespondSuccess
    \/ RespondFailure
    \/ Retry
    \/ Return

HandlerSpec == HandlerInit /\ [][HandlerNext]_vars

----------------------------------------------------------------------------
(* A direct call shortenUrl(url, apiKey) (urlShortener.js) *)

\* The arguments: URLs with each scheme, without one, and in upper case.
ClientUrls ==
    { HttpScheme \o <<"a">>,
      HttpsScheme \o <<"a">>,
      FtpScheme \o <<"a">>,
      WwwPrefix \o <<"a">>,
      <<"a", ".", "b">>,
      <<"H", "T", "T", "P", ":", "/", "/", "a">>,
      <<"F", "T", "P", ":", "/", "/", "a">>,
      <<"h", "t", "t", "p", ":", "/">>,
      <<>> }

\* What axios.get settles with: a body with any status, with or without the
\* field and the message; a response with an HTTP error status; no response.
ClientResponses ==
    {[kind |-> "data", status |-> st, shortenedUrl |-> v, message |-> m] :
        st \in {"success", "error"}, v \in {NoValue, ShortUrl1, ShortUrl2},
        m \in {"", "Invalid API key"}}
    \cup {[kind |-> "http_error", status |-> "", shortenedUrl |-> NoValue,
           message |-> "500 - Internal Server Error"],
          [kind |-> "no_response", status |-> "", shortenedUrl |-> NoValue, message |-> ""]}

ShortenUrlInit ==
    /\ clientPc = "called"
    /\ clientUrl \in ClientUrls
    /\ clientResponse = [kind |-> "none"]
    /\ clientOutcome = [threw |-> FALSE, value |-> <<>>, error |-> ""]
    /\ NotRunning
    /\ NoHandler
    /\ NoOther
    /\ NoLibrary

\* shortenUrl up to await axios.get: the URL is normalised and one request
\* is issued.
ShortenUrlCall ==
    /\ clientPc = "called"
    /\ requestUrl' = NormalizeUrl(clientUrl)
    /\ inFlight' = inFlight + 1
    /\ requests' = requests + 1
    /\ clientPc' = "awaiting"
    /\ UNCHANGED <<clientUrl, clientResponse, clientOutcome, callerVars, otherVars, libraryVars>>
    /\ UNCHANGED <<message, tokens, pc, urls, idx, processedMessage, retries, lastError,
                   returned, calls, failures, invocations, results, raised>>

\* A shortenUrl that asks once more after a failure.
ShortenUrlSettleRetrying ==
    /\ clientPc = "awaiting"
    /\ \E resp \in ClientResponses :
          /\ clientResponse' = resp
          /\ clientOutcome' = ShortenUrlOutcome(resp)
          /\ IF ShortenUrlOutcome(resp).threw /\ requests < 2
             THEN /\ requests' = requests + 1
                  /\ UNCHANGED <<clientPc, inFlight>>
             ELSE /\ clientPc' = IF ShortenUrlOutcome(resp).threw THEN "threw"
                                 ELSE "returned"
                  /\ inFlight' = inFlight - 1
                  /\ UNCHANGED requests
    /\ UNCHANGED <<clientUrl, callerVars, otherVars, libraryVars>>
    /\ UNCHANGED <<message, tokens, pc, urls, idx, processedMessage, retries, requestUrl,
                   lastError, returned, calls, failures, invocations, results, raised>>

\* axios.get settled: shortenUrl returns data.shortenedUrl or throws.
ShortenUrlSettle ==
    /\ clientPc = "awaiting"
    /\ \E resp \in ClientResponses :
          /\ clientResponse' = resp
          /\ clientOutcome' = ShortenUrlOutcome(resp)
          /\ clientPc' = IF ShortenUrlOutcome(resp).threw THEN "threw" ELSE "returned"
    /\ inFlight' = inFlight - 1
    /\ UNCHANGED <<clientUrl, callerVars, otherVars, libraryVars>>
    /\ UNCHANGED <<message, tokens, pc, urls, idx, processedMessage, retries, requestUrl,
                   lastError, returned, requests, calls, failures, invocations, results,
                   raised>>

ShortenUrlNext ==
    \/ ShortenUrlCall
    \/ ShortenUrlSettle

ShortenUrlSpec == ShortenUrlInit /\ [][ShortenUrlNext]_vars

----------------------------------------------------------------------------
(* Two invocations of processMessage on one event loop *)

\* The local state of the invocation that runs: the parameters and the
\* variables of processMessage and of the calls it awaits.
Locals ==
    [message |-> message, tokens |-> tokens, pc |-> pc, urls |-> urls, idx |-> idx,
     processedMessage |-> processedMessage, retries |-> retries,
     requestUrl |-> requestUrl, lastError |-> lastError, returned |-> returned,
     calls |-> calls, failures |-> failures, invocations |-> invocations,
     results |-> results, raised |-> raised]

\* The messages of the first and of the second invocation.
FirstMessages ==
    { Pieces[1] \o <<" ">> \o WwwPrefix \o <<"b">>,
      WwwPrefix \o ServiceMarker \o <<" ">> \o Pieces[1],
      <<"b">> }

SecondMessages == { Pieces[1], WwwPrefix \o <<"b">> }

ConcurrentInit ==
    /\ message \in FirstMessages
    /\ tokens = UrlSpansFrom(message, 1)
    /\ pc = "start"
    /\ urls = <<>>
    /\ idx = 0
    /\ processedMessage = <<>>
    /\ retries = 0
    /\ requestUrl = <<>>
    /\ lastError = ""
    /\ inFlight = 0
    /\ returned = <<>>
    /\ requests = 0
    /\ calls = <<>>
    /\ failures = <<>>
    /\ invocations = <<>>
    /\ results = <<>>
    /\ raised = {}
    /\ \E m \in SecondMessages : suspended = Fresh(m, "start")
    /\ running = 1
    /\ NoHandler
    /\ NoClient
    /\ NoLibrary

\* The invocation that runs is where the event loop can take over: not called
\* yet, awaiting the request or the timer, or over.
Suspendable == pc \in {"start", "await", "backoff", "done"}

\* An event loop on which processedMessage is one variable of the module, the
\* same for both invocations.
SwitchSharingBuffer ==
    /\ Suspendable
    /\ suspended.pc # "done"
    /\ suspended' = Locals
    /\ running' = 3 - running
    /\ message' = suspended.message
    /\ tokens' = suspended.tokens
    /\ pc' = suspended.pc
    /\ urls' = suspended.urls
    /\ idx' = suspended.idx
    /\ processedMessage' = processedMessage
    /\ retries' = suspended.retries
    /\ requestUrl' = suspended.requestUrl
    /\ lastError' = suspended.lastError
    /\ returned' = suspended.returned
    /\ calls' = suspended.calls
    /\ failures' = suspended.failures
    /\ invocations' = suspended.invocations
    /\ results' = suspended.results
    /\ raised' = suspended.raised
    /\ UNCHANGED <<inFlight, requests, callerVars, clientVars, libraryVars>>

\* The event loop turns to the other invocation: the next event (the call,
\* the response, the timer) is one of that invocation, which goes on with the
\* local state it was suspended with.
Switch ==
    /\ Suspendable
    /\ suspended.pc # "done"
    /\ suspended' = Locals
    /\ running' = 3 - running
    /\ message' = suspended.message
    /\ tokens' = suspended.tokens
    /\ pc' = suspended.pc
    /\ urls' = suspended.urls
    /\ idx' = suspended.idx
    /\ processedMessage' = suspended.processedMessage
    /\ retries' = suspended.retries
    /\ requestUrl' = suspended.requestUrl
    /\ lastError' = suspended.lastError
    /\ returned' = suspended.returned
    /\ calls' = suspended.calls
    /\ failures' = suspended.failures
    /\ invocations' = suspended.invocations
    /\ results' = suspended.results
    /\ raised' = suspended.raised
    /\ UNCHANGED <<inFlight, requests, callerVars, clientVars, libraryVars>>

ConcurrentNext ==
    \/ Switch
    \/ Enter
    \/ Skip
    \/ Invoke
    \/ RespondSuccess
    \/ RespondFailure
    \/ Retry
    \/ Return

ConcurrentSpec == ConcurrentInit /\ [][ConcurrentNext]_vars

----------------------------------------------------------------------------
(* processMessage applied to its own result *)

\* The messages of the first invocation: up to MaxRerunPieces pieces.
MaxRerunPieces == 3

RerunMessages ==
    {Flatten([i \in 1..Len(ps) |-> Pieces[ps[i]]]) :
        ps \in UNION {[1..n -> 1..Len(Pieces)] : n \in 0..MaxRerunPieces}}

RerunInit ==
    /\ message \in RerunMessages
    /\ tokens = UrlSpansFrom(message, 1)
    /\ pc = "start"
    /\ urls = <<>>
    /\ idx = 0
    /\ processedMessage = <<>>
    /\ retries = 0
    /\ requestUrl = <<>>
    /\ lastError = ""
    /\ inFlight = 0
    /\ returned = <<>>
    /\ requests = 0
    /\ calls = <<>>
    /\ failures = <<>>
    /\ invocations = <<>>
    /\ results = <<>>
    /\ raised = {}
    /\ NoHandler
    /\ NoClient
    /\ NoOther
    /\ NoLibrary

\* The invocation is over and processMessage is called with the message it
\* returned; the local state of the first invocation is kept.
Rerun ==
    /\ running = 1
    /\ pc = "done"
    /\ suspended' = Locals
    /\ running' = 2
    /\ message' = returned
    /\ tokens' = IF IsString(returned) THEN UrlSpansFrom(returned, 1) ELSE <<>>
    /\ pc' = "start"
    /\ urls' = <<>>
    /\ idx' = 0
    /\ processedMessage' = <<>>
    /\ retries' = 0
    /\ requestUrl' = <<>>
    /\ lastError' = ""
    /\ returned' = <<>>
    /\ calls' = <<>>
    /\ failures' = <<>>
    /\ invocations' = <<>>
    /\ results' = <<>>
    /\ raised' = {}
    /\ UNCHANGED <<inFlight, requests, callerVars, clientVars, libraryVars>>

RerunNext ==
    \/ Rerun
    \/ Enter
    \/ Skip
    \/ Invoke
    \/ RespondSuccess
    \/ RespondFailure
    \/ Retry
    \/ Return

RerunSpec == RerunInit /\ [][RerunNext]_vars

----------------------------------------------------------------------------
(* processMessage on tokens in capitals and on tokens of other hosts *)

MaxTokenPieces == 2

\* What these messages are made of: URLs with a scheme in capitals, with the
\* name of the service in capitals, with the name of the service behind the
\* host, and plain ones.
TokenPieces ==
    << <<"H", "T", "T", "P", ":", "/", "/", "a">>,
       <<"f", "t", "p", ":", "/", "/", "b">>,
       <<"w", "w", "w", ".", "c">>,
       <<"h", "t", "t", "p", ":", "/", "/", "L", "I", "N", "K", "A", "R", "A", ".", "X", "Y", "Z">>,
       <<"h", "t", "t", "p", ":", "/", "/", "a", "/">> \o ServiceMarker,
       HttpScheme \o ServiceMarker \o <<"/", "1">>,
       <<" ">> >>

TokenMessages ==
    {Flatten([i \in 1..Len(ps) |-> TokenPieces[ps[i]]]) :
        ps \in UNION {[1..n -> 1..Len(TokenPieces)] : n \in 0..MaxTokenPieces}}

TokenInit ==
    /\ message \in TokenMessages
    /\ tokens = UrlSpansFrom(message, 1)
    /\ pc = "start"
    /\ urls = <<>>
    /\ idx = 0
    /\ processedMessage = <<>>
    /\ retries = 0
    /\ requestUrl = <<>>
    /\ lastError = ""
    /\ inFlight = 0
    /\ returned = <<>>
    /\ requests = 0
    /\ calls = <<>>
    /\ failures = <<>>
    /\ invocations = <<>>
    /\ results = <<>>
    /\ raised = {}
    /\ NoHandler
    /\ NoClient
    /\ NoOther
    /\ NoLibrary

TokenSpec == TokenInit /\ [][Next]_vars

----------------------------------------------------------------------------
(* extractUrls, called on a text and then on its own result joined by " " *)

MaxExtractPieces == 3

\* What the texts given to extractUrls are made of.
ExtractPieces ==
    << <<"h", "t", "t", "p", ":", "/", "/", "a">>,
       <<"H", "T", "T", "P", "S", ":", "/", "/">>,
       <<"w", "w", "w", ".", "b">>,
       <<"b">>,
       <<" ">>,
       <<"<">> >>

ExtractTexts ==
    {Flatten([i \in 1..Len(ps) |-> ExtractPieces[ps[i]]]) :
        ps \in UNION {[1..n -> 1..Len(ExtractPieces)] : n \in 0..MaxExtractPieces}}

ExtractInit ==
    /\ extractArg \in ExtractTexts \cup NonStrings
    /\ extractPc = "idle"
    /\ extractResult = <<>>
    /\ extractAgain = <<>>
    /\ NotRunning
    /\ NoHandler
    /\ NoClient
    /\ NoOther
    /\ NoStore

\* extractUrls(text)
ExtractCall ==
    /\ extractPc = "idle"
    /\ extractResult' = ExtractUrls(extractArg)
    /\ extractPc' = "once"
    /\ UNCHANGED <<extractArg, extractAgain>>
    /\ UNCHANGED <<processVars, callerVars, clientVars, otherVars, storeVars>>

\* extractUrls(extractUrls(text).join(" "))
ExtractRejoined ==
    /\ extractPc = "once"
    /\ extractAgain' = ExtractUrls(JoinWithSpace(extractResult))
    /\ extractPc' = "twice"
    /\ UNCHANGED <<extractArg, extractResult>>
    /\ UNCHANGED <<processVars, callerVars, clientVars, otherVars, storeVars>>

ExtractNext ==
    \/ ExtractCall
    \/ ExtractRejoined

ExtractSpec == ExtractInit /\ [][ExtractNext]_vars

----------------------------------------------------------------------------
(* userStorage.js: the credential store in memory *)

MaxUsers == 2

\* The Telegram user ids, and 0 for a user id that is falsy.
UserIds == 1..MaxUsers
UserIdArguments == 0..MaxUsers

\* The values setUserApiKey gets as apiKey: keys, a key with white space
\* around it, white space alone, the empty string, undefined and a number.
ApiKeyArguments ==
    { <<"k">>, <<" ", "k", " ">>, <<"j">>, <<" ">>, <<>>, Undefined, <<"number 42">> }

StoreInit ==
    /\ userApiKeys = <<>>
    /\ userStats = {}
    /\ storeReply = [op |-> "none"]
    /\ lastSet = <<>>
    /\ NotRunning
    /\ NoHandler
    /\ NoClient
    /\ NoOther
    /\ NoExtract

\* map.set(key, value) and map.delete(key) of a Map held as a function.
MapSet(map, key, value) ==
    [k \in DOMAIN map \cup {key} |-> IF k = key THEN value ELSE map[k]]

MapDelete(map, key) == [k \in DOMAIN map \ {key} |-> map[k]]

\* userApiKeys.get(userId) || null
getUserApiKey(userId) ==
    IF userId \in DOMAIN userApiKeys /\ ~Falsy(userApiKeys[userId])
    THEN userApiKeys[userId]
    ELSE Null

\* userApiKeys.has(userId)
hasApiKey(userId) == userId \in DOMAIN userApiKeys

\* userApiKeys.size
getTotalUsers == Cardinality(DOMAIN userApiKeys)

\* setUserApiKey(userId, apiKey): a missing user id or key throws; a key that
\* is no string throws at apiKey.trim(); otherwise the trimmed key is stored.
SetUserApiKey(userId, apiKey) ==
    /\ IF userId = 0 \/ Falsy(apiKey)
       THEN /\ storeReply' = [op |-> "setUserApiKey", threw |-> "Error"]
            /\ UNCHANGED <<userApiKeys, userStats, lastSet>>
       ELSE IF ~IsString(apiKey)
       THEN /\ storeReply' = [op |-> "setUserApiKey", threw |-> "TypeError"]
            /\ UNCHANGED <<userApiKeys, userStats, lastSet>>
       ELSE /\ userApiKeys' = MapSet(userApiKeys, userId, Trim(apiKey))
            /\ userStats' = userStats \cup {userId}
            /\ lastSet' = MapSet(lastSet, userId, Trim(apiKey))
            /\ storeReply' = [op |-> "setUserApiKey", threw |-> "nothing"]
    /\ UNCHANGED <<processVars, callerVars, clientVars, otherVars, extractVars>>

\* removeUserApiKey(userId)
RemoveUserApiKey(userId) ==
    /\ userApiKeys' = MapDelete(userApiKeys, userId)
    /\ lastSet' = MapDelete(lastSet, userId)
    /\ storeReply' = [op |-> "removeUserApiKey", removed |-> userId \in DOMAIN userApiKeys]
    /\ UNCHANGED userStats
    /\ UNCHANGED <<processVars, callerVars, clientVars, otherVars, extractVars>>

\* clearAllUserData()
ClearAllUserData ==
    /\ userApiKeys' = <<>>
    /\ userStats' = {}
    /\ lastSet' = <<>>
    /\ storeReply' = [op |-> "clearAllUserData"]
    /\ UNCHANGED <<processVars, callerVars, clientVars, otherVars, extractVars>>

\* A call of getUserApiKey, hasApiKey or getTotalUsers: the store is read.
ReadStore ==
    /\ \/ \E userId \in UserIdArguments :
             storeReply' = [op |-> "getUserApiKey", userId |-> userId,
                            value |-> getUserApiKey(userId)]
       \/ \E userId \in UserIdArguments :
             storeReply' = [op |-> "hasApiKey", userId |-> userId,
                            value |-> hasApiKey(userId)]
       \/ storeReply' = [op |-> "getTotalUsers", value |-> getTotalUsers]
    /\ UNCHANGED <<userApiKeys, userStats, lastSet>>
    /\ UNCHANGED <<processVars, callerVars, clientVars, otherVars, extractVars>>

StoreNext ==
    \/ \E userId \in UserIdArguments, apiKey \in ApiKeyArguments :
          SetUserApiKey(userId, apiKey)
    \/ \E userId \in UserIdArguments : RemoveUserApiKey(userId)
    \/ ClearAllUserData
    \/ ReadStore

StoreSpec == StoreInit /\ [][StoreNext]_vars

----------------------------------------------------------------------------
(* Vocabulary of the properties *)

\* The text of token k of the message.
TokenText(spans, k) == SubSeq(message, spans[k][1], spans[k][2] - 1)

\* The text between token k and token k + 1 (k = 0: before the first token,
\* k = Len(spans): after the last).
Gap(spans, k) ==
    SubSeq(message,
           IF k = 0 THEN 1 ELSE spans[k][2],
           IF k = Len(spans) THEN Len(message) ELSE spans[k + 1][1] - 1)

OccursAt(out, p, g) ==
    /\ p + Len(g) - 1 <= Len(out)
    /\ SubSeq(out, p, p + Len(g) - 1) = g

\* out, read from pos, holds the gaps k, k + 1, ... in this order, the last
\* one at its end, with any text in between.
RECURSIVE GapsFrom(_, _, _, _)
GapsFrom(spans, out, k, pos) ==
    LET g == Gap(spans, k)
    IN  IF k = Len(spans)
        THEN /\ Len(out) - Len(g) + 1 >= pos
             /\ OccursAt(out, Len(out) - Len(g) + 1, g)
        ELSE LET places == {p \in pos..(Len(out) + 1) : OccursAt(out, p, g)}
             IN  /\ places # {}
                 /\ GapsFrom(spans, out, k + 1,
                             (CHOOSE p \in places : \A q \in places : p <= q) + Len(g))

\* out is the message with each token replaced by some text.
OutsidePreserved(out) ==
    LET spans == tokens
    IN  IF spans = <<>> THEN out = message
        ELSE /\ OccursAt(out, 1, Gap(spans, 0))
             /\ GapsFrom(spans, out, 1, 1 + Len(Gap(spans, 0)))

\* What token k may read as in the result: itself, or a value returned for a
\* token of the same text.
TokenOptions(spans, k) ==
    {TokenText(spans, k)} \cup
    {results[j] : j \in {i \in 1..Len(urls) :
                            urls[i] = TokenText(spans, k) /\ results[i] # NoValue}}

\* out, read from pos, is gap k, then token k + 1 as one of its options, ...
RECURSIVE WholeTokensFrom(_, _, _, _)
WholeTokensFrom(spans, out, k, pos) ==
    LET g == Gap(spans, k)
    IN  /\ OccursAt(out, pos, g)
        /\ IF k = Len(spans) THEN pos + Len(g) - 1 = Len(out)
           ELSE \E v \in TokenOptions(spans, k + 1) :
                   /\ OccursAt(out, pos + Len(g), v)
                   /\ WholeTokensFrom(spans, out, k + 1, pos + Len(g) + Len(v))

\* The requests issued for all the occurrences of one URL.
CallsForUrl(u) ==
    LET at == {i \in 1..Len(urls) : urls[i] = u}
        RECURSIVE Sum(_)
        Sum(S) == IF S = {} THEN 0
                  ELSE LET i == CHOOSE x \in S : TRUE IN calls[i] + Sum(S \ {i})
    IN  Sum(at)

HasMarker(u) == Includes(u, ServiceMarker)

Started == pc # "start"

----------------------------------------------------------------------------
(* Properties *)

\* C1: a message in which the extractor finds no URL is returned unchanged,
\* and no request is ever issued for it.
C1_NoUrlNoOp ==
    tokens = <<>> =>
        /\ requests = 0
        /\ inFlight = 0
        /\ pc \in {"start", "done"}
        /\ pc = "done" => returned = message

C1_Witness ==
    /\ pc = "done"
    /\ tokens = <<>>
    /\ ExtractUrls(message) = <<>>
    /\ Len(message) > 1
    /\ returned = message

\* C2: when every request of an invocation of shortenUrlWithRetry failed, the
\* invocation returned the URL it was given, after MAX_RETRIES + 1 requests;
\* no invocation issues more.
C2_AllFailFallback ==
    \A i \in 1..Len(urls) :
        /\ calls[i] <= MAX_RETRIES + 1
        /\ (i < idx /\ invocations[i] = 1 /\ failures[i] = calls[i]) =>
              /\ results[i] = Trim(urls[i])
              /\ calls[i] = MAX_RETRIES + 1

C2_Witness ==
    \E i \in 1..Len(urls) :
        /\ i < idx
        /\ invocations[i] = 1
        /\ failures[i] = MAX_RETRIES + 1
        /\ results[i] = urls[i]

\* C3: no invocation of shortenUrlWithRetry throws: each one that is over
\* returned a value, whatever the failures before.
C3_NeverRaises ==
    /\ raised = {}
    /\ \A i \in 1..Len(urls) :
          (i < idx /\ invocations[i] = 1) => results[i] # NoValue

C3_Witness ==
    \E i, j \in 1..Len(urls) :
        /\ i < idx /\ j < idx
        /\ failures[i] = MAX_RETRIES + 1 /\ results[i] # NoValue
        /\ failures[j] \in 1..MAX_RETRIES /\ results[j] = ShortUrl1

\* C4: a URL that occurs twice costs one request (when it succeeds, here with
\* a plain link of the service), and both occurrences read as its value in
\* the result.
C4_DuplicateSingleCall ==
    pc = "done" =>
        \A i, j \in 1..Len(urls) :
            (i < j /\ urls[i] = urls[j] /\ ~HasMarker(urls[i]) /\ failures[i] = 0
             /\ results[i] \in {ShortUrl1, ShortUrl2}) =>
                /\ CallsForUrl(urls[i]) = 1
                /\ Len(urls) = 2 =>
                      returned = Gap(tokens, 0) \o results[i] \o Gap(tokens, 1)
                                 \o results[i] \o Gap(tokens, 2)

\* C5: in the result every token reads as itself or, as a whole, as a value
\* returned for it (stated for remote values that are plain links).
C5_WholeTokenSubstitution ==
    (pc = "done" /\ \A i \in 1..Len(urls) : results[i] # ShortUrlDollar) =>
        WholeTokensFrom(tokens, returned, 0, 1)

\* C6: the text outside the URL tokens is in the running message, and in the
\* result, as it is in the message, in the same order.
C6_OutsideTextPreserved ==
    /\ pc \in {"loop", "await", "backoff"} => OutsidePreserved(processedMessage)
    /\ pc = "done" => OutsidePreserved(returned)

C6_Witness ==
    /\ pc = "done"
    /\ Len(tokens) = 2
    /\ Gap(tokens, 0) # <<>> /\ Gap(tokens, 1) # <<>>
    /\ \A i \in 1..2 : results[i] \notin {NoValue, urls[i]}
    /\ returned # message

\* The states of C7: no request and no invocation for a token with the marker;
\* a message of such tokens only is returned as it is, without any request.
C7_SkipStates ==
    /\ \A i \in 1..Len(urls) :
          HasMarker(urls[i]) => (calls[i] = 0 /\ invocations[i] = 0)
    /\ (tokens # <<>> /\ \A k \in 1..Len(tokens) : HasMarker(TokenText(tokens, k))) =>
          /\ requests = 0
          /\ pc = "done" => returned = message

\* The step of C7: the skip leaves the running message and the requests alone.
C7_SkipStep ==
    (pc = "loop" /\ idx <= Len(urls) /\ HasMarker(urls[idx])) =>
        /\ processedMessage' = processedMessage
        /\ requests' = requests
        /\ idx' = idx + 1

\* C7: a token that contains linkara.xyz gets no request and no invocation,
\* and its step changes nothing of the running message; a message of such
\* tokens only is returned unchanged without any request.
C7_SkipOwnDomain == []C7_SkipStates /\ [][C7_SkipStep]_vars

C7_Witness ==
    /\ pc = "done"
    /\ \E i, j \in 1..Len(urls) :
          /\ i < j
          /\ ~HasMarker(urls[i]) /\ results[i] = ShortUrl1
          /\ HasMarker(urls[j]) /\ calls[j] = 0

\* Position i is over: skipped, or its value returned and substituted.
Settled(i) == HasMarker(urls[i]) \/ results[i] # NoValue \/ i \in raised

\* The states of C8: urls holds the tokens in their order in the message.
C8_TokenOrder ==
    LET spans == tokens
    IN  (Started /\ spans # <<>>) =>
            /\ Len(urls) = Len(spans)
            /\ \A k \in 1..Len(spans) : urls[k] = TokenText(spans, k)

\* The step of C8: a request for position j finds every earlier one settled.
C8_RequestStep ==
    \A j \in 1..Len(urls) :
        calls'[j] > calls[j] =>
            \A i \in 1..(j - 1) : Settled(i) /\ calls'[i] = calls[i]

\* C8: the loop takes the tokens in their order in the message, and a request
\* for a token is issued only when every token before it is settled (skipped,
\* or its value returned and substituted) and gets no request any more.
C8_InOrder == []C8_TokenOrder /\ [][C8_RequestStep]_vars

C8_Witness ==
    /\ pc = "await"
    /\ idx = 2
    /\ urls[1] # urls[2]
    /\ failures[1] = MAX_RETRIES + 1
    /\ calls[2] = 1

\* C9: at most one request is in flight, and only while the invocation awaits.
C9_OneInFlight ==
    /\ inFlight \in {0, 1}
    /\ inFlight = 1 <=> pc = "await"

C9_Witness ==
    /\ inFlight = 1
    /\ idx = 2
    /\ calls[1] >= 1
    /\ calls[2] >= 2

\* C10: every token without linkara.xyz gets one invocation of
\* shortenUrlWithRetry, every token with it none.
C10_OneInvocationPerToken ==
    (Started /\ tokens # <<>>) =>
        /\ Len(urls) = Len(tokens)
        /\ \A k \in 1..Len(tokens) :
              invocations[k] = IF HasMarker(TokenText(tokens, k)) \/ k > idx THEN 0
                               ELSE IF k < idx THEN 1
                               ELSE IF pc = "loop" THEN 0 ELSE 1
        /\ pc = "done" => idx = Len(tokens) + 1

C10_Witness ==
    /\ pc = "done"
    /\ \E i, k \in 1..Len(urls) :
          /\ ~HasMarker(urls[i]) /\ invocations[i] = 1
          /\ HasMarker(urls[k]) /\ invocations[k] = 0

\* C11: in a message of two different URLs of which the first one exhausted
\* its retries, the second one is still given to shortenUrlWithRetry, and when
\* it gets a plain link the result is the message with the first URL as it
\* was and the second one replaced by the link.
C11_PartialFailureIsolation ==
    (pc = "done" /\ Len(urls) = 2 /\ urls[1] # urls[2]
     /\ failures[1] = MAX_RETRIES + 1 /\ ~HasMarker(urls[2])) =>
        /\ invocations[2] = 1
        /\ (failures[2] < calls[2] /\ results[2] = ShortUrl1) =>
              returned = Gap(tokens, 0) \o urls[1] \o Gap(tokens, 1)
                         \o results[2] \o Gap(tokens, 2)

\* The update is one the handler processes: no command, a stored key, a URL.
Processable ==
    /\ ~IsCommand(messageText)
    /\ userHasKey = "true"
    /\ ~NoUrlInText(messageText)

ClientSettled == clientPc \in {"returned", "threw"}

\* The response is the one shortenUrl takes as a success.
SuccessWithField(resp) ==
    /\ resp.kind = "data"
    /\ resp.status = "success"
    /\ resp.shortenedUrl # <<>>

\* C13: a call of shortenUrl issues one request, none before it is called
\* and none after the request settled, and a failed request ends the call
\* with an error.
C13_OneRequestPerCall ==
    /\ clientPc = "called" => (requests = 0 /\ inFlight = 0)
    /\ clientPc = "awaiting" => (requests = 1 /\ inFlight = 1)
    /\ ClientSettled => (requests = 1 /\ inFlight = 0)
    /\ (ClientSettled /\ ~SuccessWithField(clientResponse)) =>
          (clientPc = "threw" /\ clientOutcome.threw)

C13_Witness ==
    /\ clientPc = "threw"
    /\ clientResponse.kind = "no_response"
    /\ requests = 1
    /\ inFlight = 0

\* C14: shortenUrl returns a value exactly when the response has the status
\* success and a non-empty shortenedUrl, and the value is that field as it
\* is; in every other case it throws an Error.
C14_ReturnsIffSuccessWithField ==
    ClientSettled =>
        /\ clientPc = "returned" <=> SuccessWithField(clientResponse)
        /\ clientPc = "returned" =>
              /\ ~clientOutcome.threw
              /\ clientOutcome.value = clientResponse.shortenedUrl
        /\ clientPc = "threw" =>
              /\ clientOutcome.threw
              /\ clientOutcome.error # ""
              /\ clientOutcome.value = NoValue

C14_Witness ==
    /\ clientPc = "threw"
    /\ clientResponse.kind = "data"
    /\ clientResponse.status = "success"
    /\ clientResponse.shortenedUrl = NoValue

\* The failure kinds of shortenUrl.
FailureKind(resp) ==
    IF resp.kind = "no_response" THEN "no_response"
    ELSE IF resp.kind = "http_error" THEN "http_status"
    ELSE IF resp.status # "success" THEN "application_status"
    ELSE "missing_field"

\* C15: the Error shortenUrl throws tells the failure kind: no other way the
\* request can fail with a different kind gives the same Error.
C15_DistinctErrorCauses ==
    clientPc = "threw" =>
        \A resp \in ClientResponses :
            (ShortenUrlOutcome(resp).threw
             /\ ShortenUrlOutcome(resp).error = clientOutcome.error) =>
                FailureKind(resp) = FailureKind(clientResponse)

\* C16: the URL of the request is the argument when it starts with http://,
\* https:// or ftp://, and https:// followed by the argument otherwise.
C16_RequestUrl ==
    clientPc # "called" =>
        requestUrl =
            IF \/ StartsWith(clientUrl, <<"h", "t", "t", "p", ":", "/", "/">>)
               \/ StartsWith(clientUrl, <<"h", "t", "t", "p", "s", ":", "/", "/">>)
               \/ StartsWith(clientUrl, <<"f", "t", "p", ":", "/", "/">>)
            THEN clientUrl
            ELSE <<"h", "t", "t", "p", "s", ":", "/", "/">> \o clientUrl

C16_Witness ==
    /\ clientPc = "awaiting"
    /\ clientUrl = <<"w", "w", "w", ".", "a">>
    /\ requestUrl = <<"h", "t", "t", "p", "s", ":", "/", "/", "w", "w", "w", ".", "a">>

\* C17: a message that is no string is never returned as the result of
\* processMessage.
C17_MalformedInputFatal == ~IsString(message) => pc # "done"

\* The steps of C18, for the running invocation of shortenUrlWithRetry: a
\* failed attempt with retries left starts the delay and issues nothing; the
\* delay ends in the next attempt, with retries - 1; a delay starts in no other
\* way (not after a success, not after the last failure); every attempt but
\* the first comes out of a delay.
C18_BackoffStep ==
    /\ (pc = "await" /\ failures' # failures /\ retries > 0) =>
          (pc' = "backoff" /\ requests' = requests /\ retries' = retries)
    /\ pc = "backoff" =>
          (pc' = "await" /\ retries' = retries - 1 /\ calls'[idx] = calls[idx] + 1)
    /\ (pc' = "backoff" /\ pc # "backoff") =>
          (pc = "await" /\ failures'[idx] = failures[idx] + 1 /\ retries > 0)
    /\ \A j \in 1..Len(calls) :
          (calls'[j] > calls[j] /\ calls[j] >= 1) => pc = "backoff"

\* The states of C18: while the wrapper waits no request is in flight, and
\* the delays so far are as many as the attempts.
C18_BackoffStates ==
    /\ pc = "backoff" =>
          /\ inFlight = 0
          /\ retries \in 1..MAX_RETRIES
          /\ failures[idx] = calls[idx]
          /\ calls[idx] = MAX_RETRIES - retries + 1
    /\ pc = "await" => calls[idx] = MAX_RETRIES - retries + 1

\* C18: exactly one delay lies between two consecutive attempts of
\* shortenUrlWithRetry: a failed attempt with retries left is followed by the
\* delay and then by the attempt with retries - 1; no delay follows a
\* successful attempt or the last failed attempt.
C18_OneDelayBetweenAttempts == []C18_BackoffStates /\ [][C18_BackoffStep]_vars

C18_Witness ==
    /\ pc = "backoff"
    /\ retries = 1
    /\ failures[idx] = MAX_RETRIES
    /\ idx = 2
    /\ failures[1] = MAX_RETRIES + 1

\* The steps of C19: a successful attempt ends the invocation with a value of
\* the remote service and issues no request; a position that is over gets no
\* request any more.
C19_SuccessStep ==
    /\ (pc = "await" /\ inFlight' < inFlight /\ failures' = failures) =>
          /\ pc' = "loop"
          /\ idx' = idx + 1
          /\ requests' = requests
          /\ results'[idx] \in ShortValues
    /\ \A i \in 1..Len(calls) : i < idx => calls'[i] = calls[i]

\* The states of C19: an invocation that is over made between 1 and
\* MAX_RETRIES + 1 attempts, and when one succeeded it was the last one.
C19_CallStates ==
    \A i \in 1..Len(urls) :
        (i < idx /\ invocations[i] = 1) =>
            /\ calls[i] \in 1..(MAX_RETRIES + 1)
            /\ failures[i] \in {calls[i] - 1, calls[i]}
            /\ failures[i] = calls[i] - 1 => results[i] \in ShortValues
            /\ failures[i] < MAX_RETRIES => failures[i] = calls[i] - 1

\* C19: shortenUrlWithRetry stops at the first successful attempt: it returns
\* the value of that attempt and makes no further attempt; the attempts of an
\* invocation are between 1 and MAX_RETRIES + 1.
C19_StopsAtFirstSuccess == []C19_CallStates /\ [][C19_SuccessStep]_vars

C19_Witness ==
    /\ pc = "done"
    /\ \E i \in 1..Len(urls) :
          /\ calls[i] = 3
          /\ failures[i] = 2
          /\ results[i] = ShortUrl2

\* The message an invocation on m returns when it runs alone and its calls of
\* shortenUrlWithRetry return res: the substitutions from position k on.
RECURSIVE ReplayFrom(_, _, _, _)
ReplayFrom(us, res, acc, k) ==
    IF k > Len(us) THEN acc
    ELSE ReplayFrom(us, res,
                    IF AlreadyShortened(Trim(us[k])) THEN acc
                    ELSE Substitute(acc, Trim(us[k]), res[k]),
                    k + 1)

RunAlone(m, res) ==
    IF Falsy(m) \/ ~IsString(m) \/ MatchUrls(m) = <<>> THEN m
    ELSE ReplayFrom(MatchUrls(m), res, m, 1)

\* The invocation with the local state inv is as it is when it runs alone: its
\* URLs are those of its message, each call of shortenUrlWithRetry that is
\* over returned what the outcomes of its own requests give, and the message
\* returned is the one these values give.
AsAlone(inv) ==
    /\ inv.pc \in {"loop", "await", "backoff"} => inv.urls = MatchUrls(inv.message)
    /\ \A i \in 1..Len(inv.urls) :
          (i < inv.idx /\ inv.invocations[i] = 1) =>
              \/ /\ inv.failures[i] = MAX_RETRIES + 1
                 /\ inv.calls[i] = MAX_RETRIES + 1
                 /\ inv.results[i] = Trim(inv.urls[i])
              \/ /\ inv.failures[i] <= MAX_RETRIES
                 /\ inv.calls[i] = inv.failures[i] + 1
                 /\ inv.results[i] \in ShortValues
    /\ inv.pc = "done" => inv.returned = RunAlone(inv.message, inv.results)

\* The states of C20: both invocations are as when they run alone.
C20_BothAsAlone == AsAlone(Locals) /\ AsAlone(suspended)

\* The steps of C20: a step of the invocation that runs leaves the local
\* state of the other one as it is; when the event loop turns to the other
\* one, each local state is kept as it was.
C20_OwnStateStep ==
    /\ running' = running => suspended' = suspended
    /\ running' # running => (suspended' = Locals /\ Locals' = suspended)

\* C20: two invocations of processMessage that interleave at their awaits
\* each return the message they return when run alone with the same outcomes
\* of their own requests, and no step of one changes the local state of the
\* other.
C20_Reentrant == []C20_BothAsAlone /\ [][C20_OwnStateStep]_vars

C20_Witness ==
    /\ running = 1
    /\ pc = "await"
    /\ idx = 2
    /\ results[1] = ShortUrl1
    /\ suspended.pc = "backoff"
    /\ suspended.failures[1] = 2

\* In the first invocation every URL without the marker got a value of the
\* remote service, and each of these values has the marker.
FirstRunAllShortened ==
    \A i \in 1..Len(suspended.urls) :
        ~HasMarker(suspended.urls[i]) =>
            /\ suspended.failures[i] < suspended.calls[i]
            /\ HasMarker(suspended.results[i])

\* C21: when every URL of a message was shortened to a value with
\* linkara.xyz in it, processMessage applied to the result skips every token,
\* issues no request and returns that result as it is.
C21_RerunIsNoOp ==
    (running = 2 /\ FirstRunAllShortened) =>
        /\ message = suspended.returned
        /\ pc \in {"start", "loop", "done"}
        /\ inFlight = 0
        /\ \A i \in 1..Len(calls) : calls[i] = 0 /\ invocations[i] = 0
        /\ pc = "done" => returned = message

C21_Witness ==
    /\ running = 2
    /\ pc = "done"
    /\ FirstRunAllShortened
    /\ Len(suspended.urls) = 2
    /\ suspended.returned # suspended.message
    /\ idx = 3
    /\ returned = suspended.returned


\* C22: extraction is idempotent: extracting the URLs of the space-joined
\* result of extractUrls(text) yields the same sequence of URLs, in the same
\* order and with the same duplicates.
C22_ExtractionIdempotent ==
    extractPc = "twice" => extractAgain = extractResult

\* Two tokens, the second a repetition of the first, extracted twice.
C22_Witness ==
    /\ extractPc = "twice"
    /\ Len(extractResult) = 2
    /\ extractResult[1] = extractResult[2]
    /\ extractAgain = extractResult

\* A token that holds the start of another URL, extracted twice.
C22_WitnessNested ==
    /\ extractPc = "twice"
    /\ Len(extractResult) = 1
    /\ Len(UrlSpansFrom(Tail(extractResult[1]), 1)) > 0


\* A step in which shortenUrlWithRetry returns to the loop of processMessage.
C23_TokenStep == pc = "await" /\ pc' = "loop"

C23_Step ==
    /\ (C23_TokenStep /\ failures'[idx] = MAX_RETRIES + 1) =>
            /\ results'[idx] = Trim(urls[idx])
            /\ processedMessage' = processedMessage
    /\ (C23_TokenStep /\ idx \notin raised' /\ results'[idx] = Trim(urls[idx])) =>
            processedMessage' = processedMessage
    /\ (pc # "start" /\ processedMessage' # processedMessage) =>
            /\ C23_TokenStep
            /\ idx \notin raised'
            /\ results'[idx] # Trim(urls[idx])

\* C23: when shortenUrlWithRetry returns a value equal to the token (the
\* fallback after the retries are used up, or a remote value identical to the
\* URL), the step of that token leaves the running message as it is; the
\* running message changes only in steps whose value differs from the token.
C23_EqualValueKeepsMessage == [][C23_Step]_vars

\* A message of two tokens returned as it came: the first token fell back
\* after MAX_RETRIES + 1 failures, the service echoed the second.
C23_Witness ==
    /\ pc = "done"
    /\ Len(urls) = 2
    /\ failures[1] = MAX_RETRIES + 1 /\ results[1] = urls[1]
    /\ failures[2] = 0 /\ calls[2] = 1 /\ results[2] = urls[2]
    /\ returned = message


\* The attempts a token gets, given the number of its own attempts that
\* failed and whether one of them succeeded.
AttemptsFor(failed, succeeded) ==
    IF succeeded THEN failed + 1 ELSE MAX_RETRIES + 1

\* C24: each eligible token gets the full retry budget of its own: the number
\* of remote attempts made for a token depends only on the outcomes of its own
\* attempts (up to MAX_RETRIES + 1), and is not reduced by the attempts or
\* failures spent on earlier tokens.
C24_OwnRetryBudget ==
    /\ \A i \in 1..Len(urls) :
           (Started /\ i < idx /\ invocations[i] > 0) =>
               /\ calls[i] = AttemptsFor(failures[i], failures[i] < calls[i])
               /\ failures[i] <= MAX_RETRIES + 1
               /\ calls[i] <= MAX_RETRIES + 1
    /\ pc = "await" => retries = MAX_RETRIES - failures[idx]
    /\ pc = "backoff" => retries = MAX_RETRIES + 1 - failures[idx]

\* The first token used up its budget, and the second still got
\* MAX_RETRIES + 1 attempts.
C24_Witness ==
    /\ pc = "done"
    /\ Len(urls) = 2
    /\ failures[1] = MAX_RETRIES + 1
    /\ calls[2] = MAX_RETRIES + 1
    /\ failures[2] = MAX_RETRIES


\* C25: provided every remote call completes, every invocation of
\* processMessage terminates and returns a message, after at most
\* n * (MAX_RETRIES + 1) remote calls for a message of n extracted tokens.
C25_Returned ==
    /\ pc = "done"
    /\ requests <= Len(tokens) * (MAX_RETRIES + 1)
    /\ inFlight = 0
    /\ raised = {}
    /\ IsString(message) => IsString(returned)

C25_Terminates == (pc = "start") ~> C25_Returned

\* An invocation that returned after the most remote calls its two tokens allow.
C25_Witness ==
    /\ pc = "done"
    /\ Len(tokens) = 2
    /\ requests = 2 * (MAX_RETRIES + 1)


\* processMessage was invoked by the handler.
ProcessMessageInvoked == pc # "idle"

\* C26: the message handler never invokes processMessage, and so never issues
\* a remote call, for a message that starts with "/", for a user without a
\* stored API key, or for a text without a URL; a message that is no command,
\* from a user without a key, is answered with the prompt to set the key.
C26_GatedProcessing ==
    /\ IsCommand(messageText) => (~ProcessMessageInvoked /\ requests = 0 /\ outbox = <<>>)
    /\ userHasKey # "true" => (~ProcessMessageInvoked /\ requests = 0)
    /\ NoUrlInText(messageText) => (~ProcessMessageInvoked /\ requests = 0)
    /\ MatchUrls(IF IsString(messageText) THEN messageText ELSE <<>>) = <<>> => requests = 0
    /\ userHasKey = "false" =>
           (~IsCommand(messageText) /\ handlerPc = "ended" /\ outbox = <<KeyPrompt>>)

\* A user without a key sent a text with a URL and got the prompt.
C26_Witness ==
    /\ userHasKey = "false"
    /\ ~NoUrlInText(messageText)
    /\ handlerPc = "ended"
    /\ outbox = <<KeyPrompt>>
    /\ requests = 0

\* A command with a URL in it was left alone.
C26_WitnessCommand ==
    /\ IsCommand(messageText)
    /\ HandlerUrlTest(messageText)
    /\ handlerPc = "ended"
    /\ outbox = <<>>


\* The token starts with http://, https:// or ftp://, in any letter case, as
\* urlRegex matches them.
SchemePrefixed(token) ==
    \E scheme \in {HttpScheme, HttpsScheme, FtpScheme} : LiteralMatchesAt(token, 1, scheme)

\* C27: for every token the extractor returns in a scheme-prefixed form
\* (http://, https:// or ftp://, matched without regard to letter case), the
\* URL sent to the remote service is the token itself; "https://" is
\* prepended only to bare www. tokens.
C27_SchemeTokenSentAsIs ==
    pc = "await" =>
        IF SchemePrefixed(Trim(urls[idx]))
        THEN requestUrl = Trim(urls[idx])
        ELSE requestUrl = HttpsScheme \o Trim(urls[idx])

\* The same for the tokens whose scheme is in lower case.
C27_LowerCaseSchemeSentAsIs ==
    (pc = "await" /\ \E scheme \in {HttpScheme, HttpsScheme, FtpScheme} :
                          StartsWith(Trim(urls[idx]), scheme)) =>
        requestUrl = Trim(urls[idx])

\* The characters that end the host of a URL.
HostEnd == {"/", ":", "?", "#"}

\* The host of a token, in lower case: what follows the scheme, or the token
\* from its start when it has none, up to the first character of HostEnd.
Host(token) ==
    LET schemes == {sch \in {HttpScheme, HttpsScheme, FtpScheme} :
                        LiteralMatchesAt(token, 1, sch)}
        from == IF schemes = {} THEN 1
                ELSE Len(CHOOSE sch \in schemes : TRUE) + 1
        stops == {e \in from..Len(token) : token[e] \in HostEnd}
        to == IF stops = {} THEN Len(token)
              ELSE (CHOOSE e \in stops : \A f \in stops : e <= f) - 1
    IN  [k \in 1..(to - from + 1) |-> Canonicalize(token[from + k - 1])]

\* The host is the domain of the service, or a name under it.
IsServiceHost(host) ==
    \/ host = ServiceMarker
    \/ /\ Len(host) > Len(ServiceMarker)
       /\ SubSeq(host, Len(host) - Len(ServiceMarker), Len(host)) = <<".">> \o ServiceMarker

\* C28: a token is skipped as already shortened only if its host is the
\* domain of the service: every token of another host is passed to
\* shortenUrlWithRetry, and every token whose host is the domain of the
\* service, in any letter case, is skipped.
C28_SkipOnlyOwnHost ==
    \A i \in 1..Len(urls) :
        (Started /\ i < idx) => (invocations[i] = 0 <=> IsServiceHost(Host(urls[i])))

\* The part of it that is about the hosts in lower case without the name of
\* the service elsewhere in the token.
C28_PlainTokens ==
    \A i \in 1..Len(urls) :
        (Started /\ i < idx /\ urls[i] \in {TokenPieces[2], TokenPieces[3], TokenPieces[6]}) =>
            (invocations[i] = 0 <=> IsServiceHost(Host(urls[i])))


\* What the store is to hold for a user: the trimmed key of the last
\* setUserApiKey that succeeded and was not followed by a removal, or null.
ExpectedKey(userId) ==
    IF userId \in DOMAIN lastSet THEN lastSet[userId] ELSE Null

\* C29: the credential store behaves as a map per user: getUserApiKey(u)
\* returns the trimmed key of the most recent successful setUserApiKey for u
\* that was not followed by a removal of u, and null otherwise.  (That an
\* operation on one user leaves the keys of the others alone, and that a
\* rejected setUserApiKey leaves the store unchanged, is C29_Frame.)
C29_PerUserMap ==
    \A userId \in UserIds : getUserApiKey(userId) = ExpectedKey(userId)

C29_FrameStep ==
    /\ (storeReply'.op = "setUserApiKey" /\ storeReply'.threw # "nothing") =>
            UNCHANGED <<userApiKeys, userStats>>
    /\ \A userId \in UserIds :
           (hasApiKey(userId) # hasApiKey(userId)'
              \/ (hasApiKey(userId) /\ userApiKeys[userId] # userApiKeys'[userId])) =>
               \/ storeReply'.op = "clearAllUserData"
               \/ /\ storeReply'.op \in {"setUserApiKey", "removeUserApiKey"}
                  /\ \A other \in UserIds \ {userId} :
                         /\ hasApiKey(other) = hasApiKey(other)'
                         /\ hasApiKey(other) => userApiKeys[other] = userApiKeys'[other]

\* The frame of the operations of the store.
C29_Frame == [][C29_FrameStep]_vars

\* C30: in every state of the credential store in memory, hasApiKey(u) is
\* true if and only if getUserApiKey(u) returns a key that is not null, and
\* getTotalUsers() is the number of users for which hasApiKey is true.
C30_HasIffGet ==
    /\ \A userId \in UserIds : hasApiKey(userId) <=> getUserApiKey(userId) # Null
    /\ getTotalUsers = Cardinality({userId \in UserIds : hasApiKey(userId)})

\* The part of it about getTotalUsers.
C30_TotalUsers ==
    getTotalUsers = Cardinality({userId \in UserIds : hasApiKey(userId)})

====
